---- MODULE Spec2Model ----
(***************************************************************************)
(* Client-side job-progress synchronisation of the WhatsApp bulk sender:   *)
(* the App component (src/App.jsx) with its polling effect and             *)
(* handleStartSending, the FileDropzone selection handlers                 *)
(* (src/FileDropzone.jsx) and the remote job backend the three fetch calls *)
(* talk to.                                                                *)
(*                                                                         *)
(* Every await of the source is a suspension point: the code between two   *)
(* awaits is one action.  `await response.json()` is folded into the       *)
(* arrival of the response it reads.  React state updates queued by one    *)
(* synchronous stretch are committed together, and the polling effect      *)
(* (dependencies [isSending, logs.length]) is re-run as part of the action *)
(* that changed a dependency.                                              *)
(*                                                                         *)
(* Spec is the App with its send job: what it shows is the toast state of  *)
(* App.  The Toast component that renders this state (src/Toast.jsx), with *)
(* its timers and the passing of time, is specified by SpecToast, and the  *)
(* two FileDropzone slots offered any file name by SpecDropzone.           *)
(***************************************************************************)
EXTENDS Naturals, Integers, Sequences, FiniteSets, TLC

\* ------------------------------------------------------------------ bounds
MaxRequests == 3    \* start-job and get-progress requests issued in one session
MaxServerLogs == 3  \* log lines (and recipients) of one remote job
MaxCloseTimers == 2 \* close continuations pending when the close button is clicked once more

\* ---------------------------------------------------------------------- time
\* One time unit is 50 ms
DefaultDuration == 100   \* duration = 5000
CloseDelay == 6          \* setTimeout(..., 300) of handleClose

\* ------------------------------------------------------- values and helpers
NoFile == <<>>      \* null (useState(null), onFileSelect(null))

\* File names, given as name.split('.'): the files the user of a send job picks
RecipientCandidates == {<<"list", "xlsx">>}
AttachmentCandidates == {<<"flyer", "pdf">>}

\* ... and any file a slot can be offered
RecipientNames ==
  {<<"list", "xlsx">>, <<"data", "csv">>, <<"LIST", "XLSX">>, <<"list", "v2", "xls">>, <<"xlsx">>}
AttachmentNames == {<<"flyer", "pdf">>, <<"setup", "exe">>}

excelFormats == {".xlsx", ".xls"}
attachmentFormats == {".pdf", ".jpg", ".jpeg", ".png", ".gif", ".doc", ".docx", ".txt"}

\* String.prototype.toLowerCase on the letters the model uses
LowerChar(c) ==
  CASE c = "A" -> "a" [] c = "C" -> "c" [] c = "D" -> "d" [] c = "E" -> "e"
    [] c = "F" -> "f" [] c = "I" -> "i" [] c = "L" -> "l" [] c = "O" -> "o"
    [] c = "R" -> "r" [] c = "S" -> "s" [] c = "U" -> "u"
    [] OTHER -> c

\* '.' + ext, for the extensions the candidates carry (string concatenation)
DotExt(ext) ==
  CASE ext = "xlsx" -> ".xlsx" [] ext = "xls" -> ".xls" [] ext = "csv" -> ".csv"
    [] ext = "pdf" -> ".pdf" [] ext = "exe" -> ".exe" [] ext = "txt" -> ".txt"
    [] ext = "list" -> ".list" [] ext = "data" -> ".data"
    [] OTHER -> ".?"

LowerWord(w) ==
  CASE w = "XLSX" -> "xlsx" [] w = "XLS" -> "xls" [] w = "PDF" -> "pdf"
    [] w = "CSV" -> "csv" [] w = "LIST" -> "list"
    [] OTHER -> w

\* '.' + file.name.split('.').pop().toLowerCase(); acceptedFormats.includes(..)
validateFile(file, acceptedFormats) ==
  DotExt(LowerWord(file[Len(file)])) \in acceptedFormats

\* Text of the log lines the remote job can emit, one string per character;
\* "U+2713" and "U+2717" stand for the check mark and the ballot x.
Chars(m) ==
  CASE m = "a" -> <<"a">>
    [] m = "b" -> <<"b">>
    [] m = "c" -> <<"c">>
    [] m = "d U+2713" -> <<"d", " ", "U+2713">>
    [] m = "error: e" -> <<"e", "r", "r", "o", "r", ":", " ", "e">>
    [] m = "x U+2717" -> <<"x", " ", "U+2717">>
    [] m = "Sent: SUCCESS" -> <<"S", "e", "n", "t", ":", " ", "S", "U", "C", "C", "E", "S", "S">>
    [] m = "y Failed" -> <<"y", " ", "F", "a", "i", "l", "e", "d">>
    [] m = "Success, 0 failed" -> <<"S", "u", "c", "c", "e", "s", "s", ",", " ", "0", " ",
                                    "f", "a", "i", "l", "e", "d">>
    [] m = "U+2717 U+2713" -> <<"U+2717", " ", "U+2713">>
    [] m = "ERROR 5" -> <<"E", "R", "R", "O", "R", " ", "5">>
    [] m = "failure" -> <<"f", "a", "i", "l", "u", "r", "e">>
    [] m = "succes" -> <<"s", "u", "c", "c", "e", "s">>
    [] m = "" -> <<>>

\* String.prototype.includes over character sequences
Includes(s, w) ==
  \E i \in 0..(Len(s) - Len(w)) : \A j \in 1..Len(w) : s[i + j] = w[j]

ToLowerCase(s) == [i \in 1..Len(s) |-> LowerChar(s[i])]

\* Mutant: the failure markers are looked for before the success markers
CategorizeLog_ErrorFirst(logMessage) ==
  LET s == Chars(logMessage) IN
  IF Includes(s, <<"U+2717">>)
       \/ Includes(ToLowerCase(s), <<"e", "r", "r", "o", "r">>)
       \/ Includes(ToLowerCase(s), <<"f", "a", "i", "l", "e", "d">>)
  THEN [type |-> "error", message |-> logMessage]
  ELSE IF Includes(s, <<"U+2713">>)
            \/ Includes(ToLowerCase(s), <<"s", "u", "c", "c", "e", "s", "s">>)
       THEN [type |-> "success", message |-> logMessage]
       ELSE [type |-> "info", message |-> logMessage]

\* The categorisation of one server log line (map callback of the poll)
CategorizeLog(logMessage) ==
  LET s == Chars(logMessage) IN
  IF Includes(s, <<"U+2713">>)
       \/ Includes(ToLowerCase(s), <<"s", "u", "c", "c", "e", "s", "s">>)
  THEN [type |-> "success", message |-> logMessage]
  ELSE IF Includes(s, <<"U+2717">>)
            \/ Includes(ToLowerCase(s), <<"e", "r", "r", "o", "r">>)
            \/ Includes(ToLowerCase(s), <<"f", "a", "i", "l", "e", "d">>)
       THEN [type |-> "error", message |-> logMessage]
       ELSE [type |-> "info", message |-> logMessage]

\* Array.prototype.slice(start)
Slice(s, start) == SubSeq(s, start + 1, Len(s))

MapCategorize(s) == [i \in 1..Len(s) |-> CategorizeLog(s[i])]

\* The log lines of the remote job started by the r-th launch
Feed(r) ==
  IF r % 2 = 1
  THEN <<"a", "b", "c", "d U+2713", "error: e">>
  ELSE <<"x U+2717", "Sent: SUCCESS", "y Failed", "a", "b">>

\* Recipients of a job: one log line per processed recipient in this model
JobTotal == MaxServerLogs

NoToast == [message |-> <<>>, type |-> ""]
NoTimer == [none |-> TRUE]
NoAlert == <<>>
NotShown == [age |-> 0, dismissed |-> FALSE, replaced |-> FALSE]
NoData == [none |-> TRUE]

RemoveAt(s, i) == SubSeq(s, 1, i - 1) \o SubSeq(s, i + 1, Len(s))

\* ------------------------------------------------------------------- state
VARIABLES
  recipientsFile,   \* useState(null)
  attachmentFile,   \* useState(null)
  isSending,        \* useState(false)
  progress,         \* useState({current: 0, total: 0})
  logs,             \* useState([])
  toast,            \* useState({message: '', type: ''})
  interval,         \* the setInterval of the polling effect and the logs.length its callback closed over
  polls,            \* suspended interval callbacks, oldest tick first
  launches,         \* suspended handleStartSending calls, oldest first
  server,           \* the remote job: what /api/progress would answer now
  run,              \* history: number of launches requested so far
  outcome,          \* history: which statement last ended a run
  summaryRequests,  \* history: /api/status requests issued since the last launch
  finalToasts,      \* history: completion toasts shown since the last launch
  lastData,         \* history: the last response processed since the last launch, and the run state it met
  requests,         \* history: start-job and get-progress requests issued so far
  duration,         \* Toast prop duration, in time units
  isVisible,        \* Toast useState(false)
  isExiting,        \* Toast useState(false)
  autoTimer,        \* the setTimeout of the Toast auto-close effect
  closeTimers,      \* the setTimeouts of handleClose still to fire, oldest first
  shown,            \* history: the notification on display since showToast
  alert             \* the window.alert dialog open, if any

vars == <<recipientsFile, attachmentFile, isSending, progress, logs, toast,
          interval, polls, launches, server, run, outcome, summaryRequests,
          finalToasts, lastData, requests, duration, isVisible, isExiting,
          autoTimer, closeTimers, shown, alert>>

\* The Toast component's own state, timers included
toastState == <<duration, isVisible, isExiting, autoTimer, closeTimers, shown>>

client == <<recipientsFile, attachmentFile, isSending, progress, logs, toast, interval,
            toastState, alert>>
history == <<run, outcome, summaryRequests, finalToasts, lastData, requests>>

\* The polling effect body and its cleanup: with isSending an interval whose
\* callback sees the logs of this render, otherwise none.
PollingEffect(sending, lg) ==
  IF sending THEN [on |-> TRUE, len |-> Len(lg)] ELSE [on |-> FALSE, len |-> 0]

IdleServer == [job |-> 0, current |-> 0, total |-> 0, logs |-> <<>>, is_active |-> FALSE]

\* The page after the first render, the Toast given the duration d
Mounted(d) ==
  /\ recipientsFile = NoFile
  /\ attachmentFile = NoFile
  /\ isSending = FALSE
  /\ progress = [current |-> 0, total |-> 0]
  /\ logs = <<>>
  /\ toast = NoToast
  /\ interval = PollingEffect(FALSE, <<>>)
  /\ polls = <<>>
  /\ launches = <<>>
  /\ server = IdleServer
  /\ run = 0
  /\ outcome = "none"
  /\ summaryRequests = 0
  /\ finalToasts = 0
  /\ lastData = NoData
  /\ requests = 0
  /\ duration = d
  /\ isVisible = FALSE
  /\ isExiting = FALSE
  /\ autoTimer = NoTimer
  /\ closeTimers = <<>>
  /\ shown = NotShown
  /\ alert = NoAlert

\* <Toast message type onClose /> : App passes no duration
Init == Mounted(DefaultDuration)

\* --------------------------------------------------- the run state (spec 4.2)
\* isSending is the only run state the code keeps; the five states of the
\* state machine are read off it, the suspended launch and the statement
\* that last cleared isSending.
LaunchPending == \E i \in 1..Len(launches) : launches[i].run = run

runState ==
  IF isSending
  THEN IF LaunchPending THEN "Initiating" ELSE "Sending"
  ELSE CASE outcome = "completed" -> "Completed"
         [] outcome = "failed" -> "Failed"
         [] OTHER -> "Idle"

\* disabled={!recipientsFile || isSending} of the Start Sending button
StartDisabled == recipientsFile = NoFile \/ isSending

\* ------------------------------------------------------ FileDropzone, per slot
Slots == {"recipients", "attachment"}
Candidates(slot) == IF slot = "recipients" THEN RecipientCandidates ELSE AttachmentCandidates
Names(slot) == IF slot = "recipients" THEN RecipientNames ELSE AttachmentNames
Accepted(slot) == IF slot = "recipients" THEN excelFormats ELSE attachmentFormats

\* onFileSelect={setRecipientsFile} / onFileSelect={setAttachmentFile}
onFileSelect(slot, file) ==
  /\ recipientsFile' = IF slot = "recipients" THEN file ELSE recipientsFile
  /\ attachmentFile' = IF slot = "attachment" THEN file ELSE attachmentFile
  /\ UNCHANGED <<isSending, progress, logs, toast, interval, polls, launches, server>>
  /\ UNCHANGED <<toastState, alert>>
  /\ UNCHANGED history

\* Mutant: a refused file empties the slot
InvalidFormat_ClearsSlot(slot) ==
  /\ alert' = <<"Invalid file format. Please select:", Accepted(slot)>>
  /\ recipientsFile' = IF slot = "recipients" THEN NoFile ELSE recipientsFile
  /\ attachmentFile' = IF slot = "attachment" THEN NoFile ELSE attachmentFile
  /\ UNCHANGED <<isSending, progress, logs, toast, interval,
                 polls, launches, server, toastState>>
  /\ UNCHANGED history

\* alert(`Invalid file format. Please select: ${acceptedFormats.join(', ')}`):
\* the dialog opens and blocks the page until it is dismissed
InvalidFormat(slot) ==
  /\ alert' = <<"Invalid file format. Please select:", Accepted(slot)>>
  /\ UNCHANGED <<recipientsFile, attachmentFile, isSending, progress, logs, toast, interval,
                 polls, launches, server, toastState>>
  /\ UNCHANGED history

\* The user closes the dialog; the handler that opened it returns
AlertDismiss ==
  /\ alert # NoAlert
  /\ alert' = NoAlert
  /\ UNCHANGED <<recipientsFile, attachmentFile, isSending, progress, logs, toast, interval,
                 polls, launches, server, toastState>>
  /\ UNCHANGED history

\* The <input type="file" disabled={disabled}> change handler
handleFileInput(slot, file) ==
  /\ ~isSending
  /\ IF validateFile(file, Accepted(slot))
     THEN onFileSelect(slot, file)
     ELSE InvalidFormat(slot)     \* alert(...), event.target.value = ''

handleDrop(slot, file) ==
  /\ ~isSending                   \* if (disabled) return
  /\ IF validateFile(file, Accepted(slot))
     THEN onFileSelect(slot, file)
     ELSE InvalidFormat(slot)     \* alert(...)

\* The remove button is rendered only when a file is shown and !disabled
handleRemoveFile(slot) ==
  /\ ~isSending
  /\ (IF slot = "recipients" THEN recipientsFile ELSE attachmentFile) # NoFile
  /\ onFileSelect(slot, NoFile)

\* ------------------------------------------------------------ App handlers
\* Mutant: a notification on display is not replaced
showToast_KeepsCurrent(message, type) ==
  toast' = IF toast.message # <<>> THEN toast ELSE [message |-> message, type |-> type]

showToast(message, type) == toast' = [message |-> message, type |-> type]

\* Clear Files button, disabled={isSending}
clearFiles ==
  /\ ~isSending
  /\ recipientsFile' = NoFile
  /\ attachmentFile' = NoFile
  /\ UNCHANGED <<isSending, progress, logs, toast, interval, polls, launches, server>>
  /\ UNCHANGED <<toastState, alert>>
  /\ UNCHANGED history

\* Clear Logs button and the ProgressLog close button: logs.length > 0 && !isSending
clearLogs ==
  /\ ~isSending
  /\ Len(logs) > 0
  /\ logs' = <<>>
  /\ progress' = [current |-> 0, total |-> 0]
  /\ interval' = PollingEffect(isSending, logs')
  /\ UNCHANGED <<recipientsFile, attachmentFile, isSending, toast, polls, launches, server>>
  /\ UNCHANGED <<toastState, alert>>
  /\ UNCHANGED history

\* String.prototype.toUpperCase on the log types
ToUpperCase(type) ==
  CASE type = "info" -> "INFO" [] type = "success" -> "SUCCESS" [] type = "error" -> "ERROR"
    [] type = "warning" -> "WARNING"
    [] OTHER -> type

\* Mutant: the type is written as it is
ExportLine_KeepsCase(log) == <<"[", log.type, "] ", log.message>>

\* `[${log.type.toUpperCase()}] ${log.message}`, one string per piece
ExportLine(log) == <<"[", ToUpperCase(log.type), "] ", log.message>>

\* Array.prototype.join: the pieces of all lines, sep between two lines
RECURSIVE Join(_, _)
Join(lines, sep) ==
  IF Len(lines) = 0 THEN <<>>
  ELSE IF Len(lines) = 1 THEN lines[1]
  ELSE lines[1] \o <<sep>> \o Join(Tail(lines), sep)

\* const logData = logs.map(...).join('\n'): the text of the downloaded file
logData == Join([k \in 1..Len(logs) |-> ExportLine(logs[k])], "\n")

\* Export Logs button (!isSending && logs.length > 0 && progress.total > 0):
\* the file holding logData is downloaded and a notification raised
ExportLogs ==
  /\ ~isSending
  /\ Len(logs) > 0
  /\ progress.total > 0
  /\ showToast(<<"Logs exported successfully!">>, "success")
  /\ UNCHANGED <<recipientsFile, attachmentFile, isSending, progress, logs, interval,
                 polls, launches, server, toastState, alert>>
  /\ UNCHANGED history

InitMessage(file) ==
  CASE file = <<"list", "xlsx">> -> "Initializing bulk send process with list.xlsx..."
    [] OTHER -> "Initializing bulk send process with ?..."

\* Mutant: the validation branch is missing, the launch goes ahead without a file
handleStartSending_NoValidation ==
  /\ recipientsFile = NoFile
  /\ requests < MaxRequests
  /\ isSending' = TRUE
  /\ logs' = <<[type |-> "info", message |-> InitMessage(recipientsFile)]>>
  /\ progress' = [current |-> 0, total |-> 0]
  /\ launches' = Append(launches, [run |-> run + 1, stage |-> "sent"])
  /\ interval' = PollingEffect(isSending', logs')
  /\ run' = run + 1
  /\ outcome' = "none"
  /\ summaryRequests' = 0
  /\ finalToasts' = 0
  /\ lastData' = NoData
  /\ requests' = requests + 1
  /\ UNCHANGED <<recipientsFile, attachmentFile, toast, polls, server>>
  /\ UNCHANGED <<toastState, alert>>

\* handleStartSending entered without a recipients file: the validation branch
handleStartSendingNoFile ==
  /\ recipientsFile = NoFile
  /\ showToast(<<"Please select a recipients Excel file">>, "error")
  /\ UNCHANGED <<toastState, alert>>
  /\ UNCHANGED <<recipientsFile, attachmentFile, isSending, progress, logs,
                 interval, polls, launches, server>>
  /\ UNCHANGED history

\* handleStartSending from the Start Sending button, up to `await fetch('/api/send')`
handleStartSending ==
  /\ ~StartDisabled
  /\ requests < MaxRequests
  /\ isSending' = TRUE
  /\ logs' = <<[type |-> "info", message |-> InitMessage(recipientsFile)]>>
  /\ progress' = [current |-> 0, total |-> 0]
  /\ launches' = Append(launches, [run |-> run + 1, stage |-> "sent"])
  /\ interval' = PollingEffect(isSending', logs')
  /\ run' = run + 1
  /\ outcome' = "none"
  /\ summaryRequests' = 0
  /\ finalToasts' = 0
  /\ lastData' = NoData
  /\ requests' = requests + 1
  /\ UNCHANGED <<recipientsFile, attachmentFile, toast, polls, server>>
  /\ UNCHANGED <<toastState, alert>>

\* The remote job starter answers a start-job request: acceptance starts a new job
ServeSendAccept(i) ==
  /\ i \in 1..Len(launches)
  /\ launches[i].stage = "sent"
  /\ launches' = [launches EXCEPT ![i].stage = "accepted"]
  /\ server' = [job |-> launches[i].run, current |-> 0, total |-> 0, logs |-> <<>>,
                is_active |-> TRUE]
  /\ UNCHANGED client
  /\ UNCHANGED <<polls>>
  /\ UNCHANGED history

\* ... or a failure with a non-success status
ServeSendReject(i) ==
  /\ i \in 1..Len(launches)
  /\ launches[i].stage = "sent"
  /\ launches' = [launches EXCEPT ![i].stage = "rejected"]
  /\ UNCHANGED client
  /\ UNCHANGED <<polls, server>>
  /\ UNCHANGED history

\* handleStartSending resumed with response.ok: the second setLogs
LaunchAck(i) ==
  /\ i \in 1..Len(launches)
  /\ launches[i].stage = "accepted"
  /\ logs' = Append(logs, [type |-> "info", message |-> "Bulk sending process started successfully"])
  /\ launches' = RemoveAt(launches, i)
  /\ interval' = PollingEffect(isSending, logs')
  /\ UNCHANGED <<recipientsFile, attachmentFile, isSending, progress, toast, polls, server>>
  /\ UNCHANGED <<toastState, alert>>
  /\ UNCHANGED history

\* Mutant: the catch block forgets setIsSending(false)
LaunchCatch_KeepsSending(i, errorMessage) ==
  /\ logs' = Append(logs, [type |-> "error", message |-> errorMessage])
  /\ showToast(<<"Failed to start sending process. Please check your connection and try again.">>, "error")
  /\ UNCHANGED <<toastState, alert>>
  /\ launches' = RemoveAt(launches, i)
  /\ interval' = PollingEffect(isSending, logs')
  /\ UNCHANGED <<recipientsFile, attachmentFile, isSending, progress, polls, server>>
  /\ UNCHANGED <<run, outcome, summaryRequests, finalToasts, lastData, requests>>

\* The catch block of handleStartSending
LaunchCatch(i, errorMessage) ==
  /\ logs' = Append(logs, [type |-> "error", message |-> errorMessage])
  /\ showToast(<<"Failed to start sending process. Please check your connection and try again.">>, "error")
  /\ UNCHANGED <<toastState, alert>>
  /\ isSending' = FALSE
  /\ outcome' = "failed"
  /\ launches' = RemoveAt(launches, i)
  /\ interval' = PollingEffect(isSending', logs')
  /\ UNCHANGED <<recipientsFile, attachmentFile, progress, polls, server>>
  /\ UNCHANGED <<run, summaryRequests, finalToasts, lastData, requests>>

\* handleStartSending resumed with !response.ok: throw new Error(errorData.error ...)
LaunchRejected(i) ==
  /\ i \in 1..Len(launches)
  /\ launches[i].stage = "rejected"
  /\ LaunchCatch(i, "Error: Server error")

\* fetch('/api/send') rejects (transport error), whatever the server did with the request
LaunchNetworkError(i) ==
  /\ i \in 1..Len(launches)
  /\ LaunchCatch(i, "Error: Failed to fetch")

\* ------------------------------------------------- the polling effect (interval)
\* setInterval fires: the callback starts and suspends at `await fetch('/api/progress')`
Tick ==
  /\ interval.on
  /\ requests < MaxRequests
  /\ polls' = Append(polls, [len |-> interval.len, run |-> run, stage |-> "fetch", data |-> NoData])
  /\ requests' = requests + 1
  /\ UNCHANGED client
  /\ UNCHANGED <<launches, server>>
  /\ UNCHANGED <<run, outcome, summaryRequests, finalToasts, lastData>>

\* The backend answers get-progress with the job's state of that moment
ServeProgress(i) ==
  /\ i \in 1..Len(polls)
  /\ polls[i].stage = "fetch"
  /\ polls' = [polls EXCEPT ![i].stage = "response",
                            ![i].data = [current |-> server.current, total |-> server.total,
                                         logs |-> server.logs, is_active |-> server.is_active]]
  /\ UNCHANGED client
  /\ UNCHANGED <<launches, server>>
  /\ UNCHANGED history

\* if (!response.ok) { console.warn(...); return; }
PollNotOk(i) ==
  /\ i \in 1..Len(polls)
  /\ polls[i].stage = "fetch"
  /\ polls' = RemoveAt(polls, i)
  /\ UNCHANGED client
  /\ UNCHANGED <<launches, server>>
  /\ UNCHANGED history

\* Mutant: a failed poll ends the run
PollError_EndsRun(i) ==
  /\ i \in 1..Len(polls)
  /\ polls[i].stage \in {"fetch", "response"}
  /\ polls' = RemoveAt(polls, i)
  /\ isSending' = FALSE
  /\ outcome' = "failed"
  /\ interval' = PollingEffect(isSending', logs)
  /\ UNCHANGED <<recipientsFile, attachmentFile, progress, logs, toast, launches, server>>
  /\ UNCHANGED <<toastState, alert>>
  /\ UNCHANGED <<run, summaryRequests, finalToasts, lastData, requests>>

\* fetch('/api/progress') rejects: the outer catch logs to the console
PollError(i) ==
  /\ i \in 1..Len(polls)
  /\ polls[i].stage \in {"fetch", "response"}
  /\ polls' = RemoveAt(polls, i)
  /\ UNCHANGED client
  /\ UNCHANGED <<launches, server>>
  /\ UNCHANGED history

\* Mutant: the merge replaces the history by the server's log
MergeLogs_Replaces(prev, data, closureLen) ==
  IF Len(data.logs) > closureLen
  THEN MapCategorize(data.logs)
  ELSE prev

\* if (data.logs && data.logs.length > logs.length) -- logs is the closure's
MergeLogs(prev, data, closureLen) ==
  IF Len(data.logs) > closureLen
  THEN prev \o MapCategorize(Slice(data.logs, closureLen))
  ELSE prev

\* Mutant: completion decided on the active flag alone
JobCompleted_IgnoresTotal(data) == ~data.is_active

\* Mutant: completion decided while the job is still active
JobCompleted_WhileActive(data) == data.is_active /\ data.total > 0

\* if (!data.is_active && data.total > 0)
JobCompleted(data) == ~data.is_active /\ data.total > 0

\* Mutant: progress is written only when the merge appended lines
PollReceive_ProgressWithNewLogs(i) ==
  /\ i \in 1..Len(polls)
  /\ polls[i].stage = "response"
  /\ LET data == polls[i].data IN
     /\ logs' = MergeLogs(logs, data, polls[i].len)
     /\ progress' = IF logs' # logs THEN [current |-> data.current, total |-> data.total] ELSE progress
     /\ lastData' = [data |-> data, at |-> runState]
     /\ IF JobCompleted(data)
        THEN /\ isSending' = FALSE
             /\ outcome' = "completed"
             /\ polls' = [polls EXCEPT ![i].stage = "status", ![i].data = NoData]
             /\ summaryRequests' = summaryRequests + 1
        ELSE /\ polls' = RemoveAt(polls, i)
             /\ UNCHANGED <<isSending, outcome, summaryRequests>>
  /\ interval' = PollingEffect(isSending', logs')
  /\ UNCHANGED <<recipientsFile, attachmentFile, toast, launches, server>>
  /\ UNCHANGED <<toastState, alert>>
  /\ UNCHANGED <<run, finalToasts, requests>>

\* Mutant: the two counts of the response are stored crossed
PollReceive_SwapsFields(i) ==
  /\ i \in 1..Len(polls)
  /\ polls[i].stage = "response"
  /\ LET data == polls[i].data IN
     /\ logs' = MergeLogs(logs, data, polls[i].len)
     /\ progress' = [current |-> data.total, total |-> data.current]
     /\ lastData' = [data |-> data, at |-> runState]
     /\ IF JobCompleted(data)
        THEN /\ isSending' = FALSE
             /\ outcome' = "completed"
             /\ polls' = [polls EXCEPT ![i].stage = "status", ![i].data = NoData]
             /\ summaryRequests' = summaryRequests + 1
        ELSE /\ polls' = RemoveAt(polls, i)
             /\ UNCHANGED <<isSending, outcome, summaryRequests>>
  /\ interval' = PollingEffect(isSending', logs')
  /\ UNCHANGED <<recipientsFile, attachmentFile, toast, launches, server>>
  /\ UNCHANGED <<toastState, alert>>
  /\ UNCHANGED <<run, finalToasts, requests>>

\* The callback resumed with the decoded body, up to its end or to
\* `await fetch('/api/status')`
PollReceive(i) ==
  /\ i \in 1..Len(polls)
  /\ polls[i].stage = "response"
  /\ LET data == polls[i].data IN
     /\ progress' = [current |-> data.current, total |-> data.total]
     /\ logs' = MergeLogs(logs, data, polls[i].len)
     /\ lastData' = [data |-> data, at |-> runState]
     /\ IF JobCompleted(data)
        THEN /\ isSending' = FALSE
             /\ outcome' = "completed"
             /\ polls' = [polls EXCEPT ![i].stage = "status", ![i].data = NoData]
             /\ summaryRequests' = summaryRequests + 1
        ELSE /\ polls' = RemoveAt(polls, i)
             /\ UNCHANGED <<isSending, outcome, summaryRequests>>
  /\ interval' = PollingEffect(isSending', logs')
  /\ UNCHANGED <<recipientsFile, attachmentFile, toast, launches, server>>
  /\ UNCHANGED <<toastState, alert>>
  /\ UNCHANGED <<run, finalToasts, requests>>

StatusCounts == {0, 2}

\* Mutant: any failure makes the completion toast an error
CompletionToast_AnyFailureIsError(successCount, failureCount) ==
  IF failureCount = 0
  THEN [message |-> <<"All", ToString(successCount), "messages sent successfully!">>,
        type |-> "success"]
  ELSE [message |-> <<"Completed:", ToString(successCount), "sent,", ToString(failureCount),
                      "failed">>,
        type |-> "error"]

\* The completion toast chosen from statusData; the template literals turn
\* the counts into text
CompletionToast(successCount, failureCount) ==
  IF failureCount = 0
  THEN [message |-> <<"All", ToString(successCount), "messages sent successfully!">>,
        type |-> "success"]
  ELSE [message |-> <<"Completed:", ToString(successCount), "sent,", ToString(failureCount),
                      "failed">>,
        type |-> IF successCount > 0 THEN "success" ELSE "error"]

\* Mutant: the completion toast also empties both file slots
StatusReceive_ClearsFiles(i, successCount, failureCount) ==
  /\ i \in 1..Len(polls)
  /\ polls[i].stage = "status"
  /\ LET completion == CompletionToast(successCount, failureCount) IN
       showToast(completion.message, completion.type)
  /\ UNCHANGED <<toastState, alert>>
  /\ finalToasts' = finalToasts + 1
  /\ polls' = RemoveAt(polls, i)
  /\ recipientsFile' = NoFile
  /\ attachmentFile' = NoFile
  /\ UNCHANGED <<isSending, progress, logs, interval, launches, server>>
  /\ UNCHANGED <<run, outcome, summaryRequests, lastData, requests>>

\* The callback resumed with the final status
StatusReceive(i, successCount, failureCount) ==
  /\ i \in 1..Len(polls)
  /\ polls[i].stage = "status"
  /\ LET completion == CompletionToast(successCount, failureCount) IN
       showToast(completion.message, completion.type)
  /\ UNCHANGED <<toastState, alert>>
  /\ finalToasts' = finalToasts + 1
  /\ polls' = RemoveAt(polls, i)
  /\ UNCHANGED <<recipientsFile, attachmentFile, isSending, progress, logs, interval,
                 launches, server>>
  /\ UNCHANGED <<run, outcome, summaryRequests, lastData, requests>>

\* The same statements on the body of a non-success response, which holds an
\* error text and neither count: statusResponse.ok is not looked at,
\* undefined === 0 and undefined > 0 are false, the template prints undefined
ErrorBodyToast ==
  [message |-> <<"Completed:", "undefined", "sent,", "undefined", "failed">>, type |-> "error"]

\* The callback resumed with a non-success response to /api/status whose body
\* is JSON
StatusNotOk(i) ==
  /\ i \in 1..Len(polls)
  /\ polls[i].stage = "status"
  /\ showToast(ErrorBodyToast.message, ErrorBodyToast.type)
  /\ finalToasts' = finalToasts + 1
  /\ polls' = RemoveAt(polls, i)
  /\ UNCHANGED <<recipientsFile, attachmentFile, isSending, progress, logs, interval,
                 launches, server, toastState, alert>>
  /\ UNCHANGED <<run, outcome, summaryRequests, lastData, requests>>

\* fetch('/api/status') rejects, or the body of the response is not JSON:
\* catch (statusError) logs to the console
StatusError(i) ==
  /\ i \in 1..Len(polls)
  /\ polls[i].stage = "status"
  /\ polls' = RemoveAt(polls, i)
  /\ UNCHANGED client
  /\ UNCHANGED <<launches, server>>
  /\ UNCHANGED history

\* ------------------------------------------------------------ Toast (Toast.jsx)
\* At a show, a pending timer that has been running for some time (full is
\* the delay it was armed with) was armed for an earlier notification
Stale(timer, full) == [timer EXCEPT !.stale = @ \/ timer.left < full]

\* The Toast rendered with a new message prop: the effect with dependencies
\* [message] and the auto-close effect with dependencies [message, duration]
\* (cleanup of the previous timer, then a new one) run when the text changed
ToastEffects(message) ==
  IF message = toast.message
  THEN /\ UNCHANGED <<isVisible, isExiting>>
       /\ autoTimer' = IF autoTimer = NoTimer THEN NoTimer ELSE Stale(autoTimer, duration)
  ELSE /\ isVisible' = TRUE
       /\ isExiting' = FALSE
       /\ autoTimer' = IF duration > 0
                       THEN [left |-> duration, stale |-> FALSE]
                       ELSE NoTimer

\* The notifications App shows: the literals of its showToast calls
ToastMessages ==
  { [message |-> <<"Please select a recipients Excel file">>, type |-> "error"],
    [message |-> <<"Logs exported successfully!">>, type |-> "success"] }

\* showToast(message, type) and the render of <Toast> that follows it
ToastShow(message, type) ==
  /\ showToast(message, type)
  /\ ToastEffects(message)
  /\ closeTimers' = [k \in 1..Len(closeTimers) |-> Stale(closeTimers[k], CloseDelay)]
  /\ shown' = [age |-> 0, dismissed |-> FALSE, replaced |-> toast.message # <<>>]
  /\ UNCHANGED <<recipientsFile, attachmentFile, isSending, progress, logs, interval,
                 polls, launches, server, duration, alert>>
  /\ UNCHANGED history

\* handleClose: the exit animation starts, the close is left to a timeout
\* that nothing cancels
handleClose(stale) ==
  /\ isExiting' = TRUE
  /\ closeTimers' = Append(closeTimers, [left |-> CloseDelay, stale |-> stale])
  /\ UNCHANGED <<recipientsFile, attachmentFile, isSending, progress, logs, toast, interval,
                 polls, launches, server, duration, isVisible, alert>>
  /\ UNCHANGED history

\* The close button of the notification on display
ToastCloseClick ==
  /\ toast.message # <<>>
  /\ Len(closeTimers) < MaxCloseTimers
  /\ handleClose(FALSE)
  /\ shown' = [shown EXCEPT !.dismissed = TRUE]
  /\ UNCHANGED autoTimer

\* The auto-close timer expires: () => { handleClose(); }
ToastAutoClose ==
  /\ autoTimer # NoTimer
  /\ autoTimer.left = 0
  /\ handleClose(autoTimer.stale)
  /\ autoTimer' = NoTimer
  /\ UNCHANGED shown

\* The timeout of handleClose expires: setIsVisible(false), setIsExiting(false),
\* onClose() = setToast({message: '', type: ''}); the Toast renders with no
\* message, the cleanup of the auto-close effect clears its timer
ToastCloseTimeout ==
  /\ closeTimers # <<>>
  /\ Head(closeTimers).left = 0
  /\ closeTimers' = Tail(closeTimers)
  /\ isVisible' = FALSE
  /\ isExiting' = FALSE
  /\ toast' = NoToast
  /\ autoTimer' = NoTimer
  /\ shown' = NotShown
  /\ UNCHANGED <<recipientsFile, attachmentFile, isSending, progress, logs, interval,
                 polls, launches, server, duration, alert>>
  /\ UNCHANGED history

\* ---------------------------------------------------------------------- time
TimerSet == {closeTimers[k] : k \in 1..Len(closeTimers)}
              \cup (IF autoTimer = NoTimer THEN {} ELSE {autoTimer})

\* dt time units pass, no timer being overdue
Elapse(dt) ==
  /\ dt > 0
  /\ \A t \in TimerSet : t.left >= dt
  /\ TimerSet # {} \/ (toast.message # <<>> /\ shown.age <= duration)
  /\ autoTimer' = IF autoTimer = NoTimer THEN NoTimer ELSE [autoTimer EXCEPT !.left = @ - dt]
  /\ closeTimers' = [k \in 1..Len(closeTimers) |-> [closeTimers[k] EXCEPT !.left = @ - dt]]
  /\ shown' = IF toast.message = <<>> THEN shown
              ELSE [shown EXCEPT !.age = IF @ + dt > duration THEN duration + 1 ELSE @ + dt]
  /\ UNCHANGED <<recipientsFile, attachmentFile, isSending, progress, logs, toast, interval,
                 polls, launches, server, duration, isVisible, isExiting, alert>>
  /\ UNCHANGED history

\* One time unit passes
ElapseUnit == Elapse(1)

\* ------------------------------------------------------------ the remote job
\* The job learns its number of recipients
ServerLoad ==
  /\ server.is_active
  /\ server.total = 0
  /\ server' = [server EXCEPT !.total = JobTotal]
  /\ UNCHANGED <<client, polls, launches, history>>

\* The job processes its next recipient and logs the outcome (cumulative,
\* append-only log)
ServerAdvance ==
  /\ server.is_active
  /\ server.current < server.total
  /\ server' = [server EXCEPT !.current = @ + 1,
                              !.logs = Append(@, Feed(server.job)[Len(@) + 1])]
  /\ UNCHANGED <<client, polls, launches, history>>

\* The job ends: every recipient was processed, or there was none
ServerFinish ==
  /\ server.is_active
  /\ server.current = server.total
  /\ server' = [server EXCEPT !.is_active = FALSE]
  /\ UNCHANGED <<client, polls, launches, history>>

\* --------------------------------------------------------- the specification
\* An open alert dialog blocks the page: no handler, callback or timer of the
\* page runs until it is dismissed, while the backend goes on
PageIdle == alert = NoAlert

UserStep ==
  \/ PageIdle /\ \E slot \in Slots : \E file \in Candidates(slot) : handleFileInput(slot, file)
  \/ PageIdle /\ \E slot \in Slots : \E file \in Candidates(slot) : handleDrop(slot, file)
  \/ PageIdle /\ \E slot \in Slots : handleRemoveFile(slot)
  \/ PageIdle /\ clearFiles
  \/ PageIdle /\ clearLogs
  \/ PageIdle /\ handleStartSendingNoFile
  \/ PageIdle /\ handleStartSending
  \/ PageIdle /\ ExportLogs

LaunchStep ==
  \/ PageIdle /\ \E i \in 1..Len(launches) : LaunchAck(i)
  \/ PageIdle /\ \E i \in 1..Len(launches) : LaunchRejected(i)
  \/ PageIdle /\ \E i \in 1..Len(launches) : LaunchNetworkError(i)

PollStep ==
  \/ PageIdle /\ Tick
  \/ PageIdle /\ \E i \in 1..Len(polls) : PollNotOk(i)
  \/ PageIdle /\ \E i \in 1..Len(polls) : PollError(i)
  \/ PageIdle /\ \E i \in 1..Len(polls) : PollReceive(i)
  \/ PageIdle /\ \E i \in 1..Len(polls) : \E s \in StatusCounts : \E f \in StatusCounts : StatusReceive(i, s, f)
  \/ PageIdle /\ \E i \in 1..Len(polls) : StatusNotOk(i)
  \/ PageIdle /\ \E i \in 1..Len(polls) : StatusError(i)

ServerStep ==
  \/ \E i \in 1..Len(launches) : ServeSendAccept(i)
  \/ \E i \in 1..Len(launches) : ServeSendReject(i)
  \/ \E i \in 1..Len(polls) : ServeProgress(i)
  \/ ServerLoad
  \/ ServerAdvance
  \/ ServerFinish

Next == UserStep \/ LaunchStep \/ PollStep \/ ServerStep

Spec == Init /\ [][Next]_vars

\* The two file slots offered any file, through launches that are accepted
\* or refused
DropzoneStep ==
  \/ PageIdle /\ \E slot \in Slots : \E file \in Names(slot) : handleFileInput(slot, file)
  \/ PageIdle /\ \E slot \in Slots : \E file \in Names(slot) : handleDrop(slot, file)
  \/ PageIdle /\ \E slot \in Slots : handleRemoveFile(slot)
  \/ PageIdle /\ clearFiles
  \/ PageIdle /\ handleStartSending
  \/ AlertDismiss
  \/ \E i \in 1..Len(launches) : ServeSendAccept(i)
  \/ \E i \in 1..Len(launches) : ServeSendReject(i)

SpecDropzone == Init /\ [][DropzoneStep \/ LaunchStep]_vars

\* The notification centre on its own: showToast of App and the Toast it
\* renders, given any of the durations and shown any of the notifications
Durations == {0, 2, DefaultDuration}

ToastStep ==
  \/ \E n \in ToastMessages : ToastShow(n.message, n.type)
  \/ ToastCloseClick
  \/ ToastAutoClose
  \/ ToastCloseTimeout
  \/ ElapseUnit

SpecToast == (\E d \in Durations : Mounted(d)) /\ [][ToastStep]_vars

TypeOK ==
  /\ isSending \in BOOLEAN
  /\ progress.current \in 0..JobTotal /\ progress.total \in {0, JobTotal}
  /\ interval = PollingEffect(isSending, logs)
  /\ Len(polls) + Len(launches) <= MaxRequests
  /\ run \in 0..MaxRequests
  /\ requests \in 0..MaxRequests

\* ------------------------------------------------------------------ claims
\* The entries of a log history that came from the remote job's log (the
\* launcher's own entries carry other texts)
ServerMessages == {Feed(1)[k] : k \in 1..Len(Feed(1))} \cup {Feed(2)[k] : k \in 1..Len(Feed(2))}
IsServerEntry(e) == e.message \in ServerMessages
PollerEntries(lg) == SelectSeq(lg, IsServerEntry)

IsPrefix(s, t) == Len(s) <= Len(t) /\ SubSeq(t, 1, Len(s)) = s

\* C1: during the first run the server's log lines held in LogHistory are the
\* leading lines of the job's log, each once and in order, and no fewer than
\* the response processed last reported (what the claim says of the server's
\* entries, the launcher's own entries set aside in its favour).
C1_ExactlyOnce ==
  (run = 1 /\ runState = "Sending" /\ lastData # NoData) =>
    /\ IsPrefix(PollerEntries(logs), MapCategorize(Feed(1)))
    /\ Len(PollerEntries(logs)) >= Len(lastData.data.logs)

\* C2: a poll response processed in Sending ends the run (Completed) exactly
\* when it reports active = false with total > 0; any other response leaves
\* the run in Sending.
C2_CompletionRule ==
  [][\A i \in 1..Len(polls) :
       (runState = "Sending" /\ PollReceive(i)) =>
         runState' = (IF ~polls[i].data.is_active /\ polls[i].data.total > 0
                      THEN "Completed" ELSE "Sending")]_vars

\* C2 witness: a response with active = false and total = 0 was processed in
\* Sending and the run is still in Sending
C2_Witness ==
  /\ runState = "Sending"
  /\ lastData # NoData
  /\ lastData.at = "Sending"
  /\ ~lastData.data.is_active
  /\ lastData.data.total = 0

\* C3: with no recipients file selected no start-job request is issued, and a
\* launch attempted then changes only the notification, which becomes an
\* error: run state, LogHistory and JobProgress stay as they were.
C3_NoFileNoLaunch ==
  [][/\ (recipientsFile = NoFile => run' = run /\ Len(launches') <= Len(launches))
     /\ (handleStartSendingNoFile =>
           /\ runState' = runState
           /\ UNCHANGED <<isSending, logs, progress, launches, polls, run>>
           /\ toast'.type = "error")]_vars

\* C3 witness: the refusal happened in Idle
C3_Witness ==
  /\ runState = "Idle"
  /\ recipientsFile = NoFile
  /\ run = 0
  /\ toast = [message |-> <<"Please select a recipients Excel file">>, type |-> "error"]

\* C4: a poll response whose log count does not exceed the count held
\* locally, or that repeats the response processed just before it, leaves
\* LogHistory unchanged.
C4_MergeIdempotent ==
  [][\A i \in 1..Len(polls) :
       (/\ PollReceive(i)
        /\ \/ Len(polls[i].data.logs) <= Len(logs)
           \/ (lastData # NoData /\ lastData.data = polls[i].data))
       => logs' = logs]_vars

\* The two answers of the scenario of C5
Snapshot1 == [current |-> 3, total |-> 10, logs |-> <<"a", "b", "c">>, is_active |-> TRUE]
Snapshot2 == [current |-> 10, total |-> 10,
              logs |-> <<"a", "b", "c", "d U+2713", "error: e">>, is_active |-> FALSE]

\* The backend of the scenario: it answers the first get-progress request it
\* serves after the job started with Snapshot1, the second with Snapshot2, and
\* no further one.
ScenarioAnswer(i) ==
  /\ i \in 1..Len(polls)
  /\ polls[i].stage = "fetch"
  /\ server.job > 0
  /\ server.current < Snapshot2.current
  /\ LET answer == IF server.current = 0 THEN Snapshot1 ELSE Snapshot2 IN
     /\ polls' = [polls EXCEPT ![i].stage = "response", ![i].data = answer]
     /\ server' = [job |-> server.job, current |-> answer.current, total |-> answer.total,
                   logs |-> answer.logs, is_active |-> answer.is_active]
  /\ UNCHANGED client
  /\ UNCHANGED launches
  /\ UNCHANGED history

ScenarioUserStep ==
  \/ PageIdle /\ \E slot \in Slots : \E file \in Candidates(slot) : handleFileInput(slot, file)
  \/ PageIdle /\ \E slot \in Slots : handleRemoveFile(slot)
  \/ PageIdle /\ handleStartSending
  \/ PageIdle /\ ExportLogs

ScenarioServerStep ==
  \/ \E i \in 1..Len(launches) : ServeSendAccept(i)
  \/ \E i \in 1..Len(launches) : ServeSendReject(i)
  \/ \E i \in 1..Len(polls) : ScenarioAnswer(i)

NextScenario == ScenarioUserStep \/ LaunchStep \/ PollStep \/ ScenarioServerStep

SpecScenario == Init /\ [][NextScenario]_vars

\* C5: in the first run, when Snapshot2 is processed in Sending right after
\* Snapshot1 was processed in Sending, by a callback that saw the current log
\* count (no overlapping cycle), LogHistory becomes the five classified lines
\* of Snapshot2, the run becomes Completed and progress is {10, 10}.
C5_Scenario ==
  [][\A i \in 1..Len(polls) :
       (/\ PollReceive(i)
        /\ run = 1
        /\ runState = "Sending"
        /\ lastData = [data |-> Snapshot1, at |-> "Sending"]
        /\ polls[i].len = Len(logs)
        /\ polls[i].data = Snapshot2)
       => /\ logs' = << [type |-> "info", message |-> "a"],
                        [type |-> "info", message |-> "b"],
                        [type |-> "info", message |-> "c"],
                        [type |-> "success", message |-> "d U+2713"],
                        [type |-> "error", message |-> "error: e"] >>
          /\ runState' = "Completed"
          /\ progress' = [current |-> 10, total |-> 10]]_vars

\* C6: a run that is Completed has issued exactly one final-summary request
\* and shown at most one completion notification.
C6_OneSummary ==
  runState = "Completed" => (summaryRequests = 1 /\ finalToasts <= 1)

\* C7: a failed poll (non-success response or transport error) changes
\* neither LogHistory, JobProgress, the run state nor the notification, and
\* leaves the interval of a run in Sending armed.
C7_FailedPollChangesNothing ==
  [][\A i \in 1..Len(polls) :
       ((PollNotOk(i) \/ PollError(i)) /\ polls[i].stage \in {"fetch", "response"}) =>
         /\ UNCHANGED <<logs, progress, isSending, toast, interval, launches>>
         /\ runState' = runState
         /\ (runState = "Sending" => interval'.on)]_vars

\* C7 witness: the run is in Sending with its interval armed after every poll
\* the session may issue has failed
C7_Witness ==
  /\ runState = "Sending"
  /\ interval.on
  /\ run = 1
  /\ requests = MaxRequests
  /\ polls = <<>>
  /\ lastData = NoData
  /\ MaxRequests >= 3

\* C8: a launch that fails while the run is Initiating takes it to Failed,
\* raises an error notification, leaves both selected files as they were and
\* leaves the Start Sending button enabled.
C8_LaunchFailure ==
  [][\A i \in 1..Len(launches) :
       ((LaunchRejected(i) \/ LaunchNetworkError(i)) /\ runState = "Initiating") =>
         /\ runState' = "Failed"
         /\ toast'.type = "error"
         /\ UNCHANGED <<recipientsFile, attachmentFile>>
         /\ ~StartDisabled']_vars

\* C8 witness: Failed after a launch with both files selected, launch permitted
C8_Witness ==
  /\ runState = "Failed"
  /\ launches = <<>>
  /\ toast.type = "error"
  /\ recipientsFile # NoFile
  /\ attachmentFile # NoFile
  /\ ~StartDisabled

\* C9: the run state changes only along Idle -> Initiating -> Sending ->
\* Completed and Initiating -> Failed, a new run starting from Idle,
\* Completed or Failed with Initiating.
C9_Transitions ==
  [][\/ runState' = runState
     \/ (runState \in {"Idle", "Completed", "Failed"} /\ runState' = "Initiating")
     \/ (runState = "Initiating" /\ runState' \in {"Sending", "Failed"})
     \/ (runState = "Sending" /\ runState' = "Completed")]_vars

\* The steps no user takes: responses arriving and the timer
AutomaticStep ==
  \/ LaunchStep
  \/ PollStep

\* C10: in Completed and in Failed no automatic step changes the run state,
\* LogHistory or JobProgress, or shows a completion notification beyond the
\* one of the run's final summary.
C10_Terminal ==
  [][(runState \in {"Completed", "Failed"} /\ AutomaticStep) =>
       /\ runState' = runState
       /\ logs' = logs
       /\ progress' = progress
       /\ (finalToasts' = finalToasts \/ finalToasts = 0)]_vars

\* C11: the final summary is classified by its counts: no failure gives a
\* success notification citing successCount, failures beside successes give
\* a success-kind notification citing both counts, failures alone an error.
C11_Classification ==
  [][\A i \in 1..Len(polls) : \A s \in StatusCounts : \A f \in StatusCounts :
       StatusReceive(i, s, f) =>
         /\ (f = 0 => /\ toast'.type = "success"
                      /\ toast'.message = <<"All", ToString(s), "messages sent successfully!">>)
         /\ (f > 0 => toast'.message =
                        <<"Completed:", ToString(s), "sent,", ToString(f), "failed">>)
         /\ (f > 0 /\ s > 0 => toast'.type = "success")
         /\ (f > 0 /\ s = 0 => toast'.type = "error")]_vars

\* C11 witness: a completed run whose summary of 2 successes and 2 failures
\* is on display as a success-kind notification
C11_Witness ==
  /\ runState = "Completed"
  /\ finalToasts = 1
  /\ toast.type = "success"
  /\ Len(toast.message) = 5
  /\ toast.message[2] = "2"
  /\ toast.message[4] = "2"

\* C12: a final-summary request that fails, by a transport error or by a
\* non-success response, shows no notification, issues no further request
\* and leaves the run state as it was (Completed stays Completed).
C12_SummaryFailureSilent ==
  [][\A i \in 1..Len(polls) :
       (StatusError(i) \/ StatusNotOk(i)) =>
         /\ toast' = toast
         /\ runState' = runState
         /\ UNCHANGED <<summaryRequests, requests>>
         /\ Len(polls') < Len(polls)]_vars

\* currentFile of a slot
SlotFile(slot) == IF slot = "recipients" THEN recipientsFile ELSE attachmentFile

\* The extension of a name: the text after its last '.', in lower case, for
\* a name that has a '.'
HasExtension(file) == Len(file) >= 2
Extension(file) == LowerWord(file[Len(file)])

\* C13: a file whose extension is not in the slot's allow-list, offered
\* through the file input or dropped, leaves the files of both slots as they
\* were and is refused with the alert.
C13_RejectedKeepsSelection ==
  [][\A slot \in Slots : \A file \in Names(slot) :
       (/\ handleFileInput(slot, file) \/ handleDrop(slot, file)
        /\ HasExtension(file)
        /\ DotExt(Extension(file)) \notin Accepted(slot))
       => /\ UNCHANGED <<recipientsFile, attachmentFile>>
          /\ alert' # NoAlert]_vars

\* C13 witness: a file was just refused by the recipients slot, which still
\* holds the file selected before
C13_Witness ==
  /\ alert = <<"Invalid file format. Please select:", excelFormats>>
  /\ recipientsFile = <<"list", "xlsx">>

\* C14: the file a slot holds has a name with a '.', and the text after the
\* last '.', in lower case, is one of the slot's accepted extensions.
C14_SelectedIsAccepted ==
  \A slot \in Slots :
    SlotFile(slot) # NoFile =>
      /\ HasExtension(SlotFile(slot))
      /\ DotExt(Extension(SlotFile(slot))) \in Accepted(slot)

\* C19: in every run state the file of a slot that holds one can be
\* removed, a run in progress included.
C19_ClearAlways ==
  \A slot \in Slots : SlotFile(slot) # NoFile => ENABLED handleRemoveFile(slot)

\* C15: the page holds one notification; showing one puts it in the place of
\* whatever was on display, at once.
C15_ShowReplaces ==
  [][\A n \in ToastMessages : ToastShow(n.message, n.type) => toast' = n]_vars

\* C15 witness: a notification was shown while another one was closing, and
\* is on display in its place
C15_Witness ==
  /\ toast = [message |-> <<"Logs exported successfully!">>, type |-> "success"]
  /\ shown.replaced
  /\ ~isExiting
  /\ closeTimers # <<>>

\* C16: a notification given a duration d > 0 and not dismissed by the
\* user is no longer on display once more than d has passed since it was
\* shown (with d = 100 ms it is gone 150 ms after the show).
C16_AutoClear ==
  (toast.message # <<>> /\ duration > 0 /\ ~shown.dismissed) => shown.age <= duration

\* C17: no timer armed before the notification on display was shown acts on
\* it: neither a close continuation clears it nor an auto-close timer
\* starts closing it.
C17_NoStaleTimer ==
  [][/\ (ToastCloseTimeout /\ toast.message # <<>>) => ~Head(closeTimers).stale
     /\ ToastAutoClose => ~autoTimer.stale]_vars

\* The lines of a text: its pieces between two line breaks
RECURSIVE SplitLines(_)
SplitLines(text) ==
  IF \A k \in 1..Len(text) : text[k] # "\n" THEN <<text>>
  ELSE LET first == CHOOSE k \in 1..Len(text) :
                      text[k] = "\n" /\ \A j \in 1..(k - 1) : text[j] # "\n"
       IN <<SubSeq(text, 1, first - 1)>> \o SplitLines(SubSeq(text, first + 1, Len(text)))

\* C18: the exported text of a LogHistory of n entries has n lines, the
\* i-th being "[KIND] text" of the i-th entry, KIND its kind in capitals.
C18_ExportLines ==
  [][ExportLogs =>
       LET lines == SplitLines(logData) IN
       /\ Len(lines) = Len(logs)
       /\ \A k \in 1..Len(logs) :
            lines[k] = << "[",
                          CASE logs[k].type = "info" -> "INFO"
                            [] logs[k].type = "success" -> "SUCCESS"
                            [] logs[k].type = "error" -> "ERROR",
                          "] ",
                          logs[k].message >>]_vars

\* C18 witness: the five entries of a completed scenario run were exported
C18_Witness ==
  /\ toast = [message |-> <<"Logs exported successfully!">>, type |-> "success"]
  /\ runState = "Completed"
  /\ Len(logs) = 5
  /\ Len(SplitLines(logData)) = 5

\* C20: at most one get-progress request is in flight at any time.
C20_NoParallelPolls ==
  Cardinality({k \in 1..Len(polls) : polls[k].stage \in {"fetch", "response"}}) <= 1

\* C21: within a run, the progress a poll response writes is never older
\* than the progress written before it: the job only counts upwards, so a
\* lower count is the response of an earlier cycle applied after a later one.
C21_InOrder ==
  [][\A i \in 1..Len(polls) :
       (/\ PollReceive(i)
        /\ run = 1
        /\ runState = "Sending"
        /\ lastData # NoData
        /\ lastData.at = "Sending")
       => polls[i].data.current >= lastData.data.current]_vars

\* C22: once the run has completed and the interval is cleared, a poll
\* response still in flight changes neither LogHistory, JobProgress, the run
\* state nor the toast.
C22_CancelledPollMutatesNothing ==
  [][\A i \in 1..Len(polls) :
       (PollReceive(i) /\ ~interval.on /\ outcome = "completed")
       => /\ UNCHANGED <<logs, progress, isSending, toast>>
          /\ runState' = runState]_vars

\* C23: a get-progress request is issued only while the run is Sending.
C23_PollOnlyInSending ==
  [][Tick => runState = "Sending"]_vars

\* The polling loop when every status poll succeeds: the interval keeps
\* firing, the backend answers, the response is processed.
PollStepLive ==
  \/ PageIdle /\ Tick
  \/ PageIdle /\ \E i \in 1..Len(polls) : PollReceive(i)
  \/ PageIdle /\ \E i \in 1..Len(polls) : \E s \in StatusCounts : \E f \in StatusCounts : StatusReceive(i, s, f)
  \/ PageIdle /\ \E i \in 1..Len(polls) : StatusNotOk(i)
  \/ PageIdle /\ \E i \in 1..Len(polls) : StatusError(i)

\* The user selects the files and presses Start
LiveUserStep ==
  \/ PageIdle /\ \E slot \in Slots : \E file \in Candidates(slot) : handleFileInput(slot, file)
  \/ PageIdle /\ handleStartSending

NextLive == LiveUserStep \/ LaunchStep \/ PollStepLive \/ ServerStep

\* setInterval fires as long as the interval is set; a request sent is
\* answered; an answer received is processed
Fairness ==
  /\ WF_vars(Tick)
  /\ WF_vars(\E i \in 1..Len(polls) : ServeProgress(i))
  /\ WF_vars(\E i \in 1..Len(polls) : PollReceive(i))

SpecLive == Init /\ [][NextLive]_vars /\ Fairness

C25_AppendOnly ==
  [][IsPrefix(logs, logs') \/ handleStartSending \/ clearLogs]_vars

\* C25 witness: a run whose history grew by a launcher entry and by lines
\* merged from two poll responses
C25_Witness ==
  /\ runState = "Sending"
  /\ Len(logs) >= 4
  /\ Len(PollerEntries(logs)) >= 2
  /\ lastData # NoData

\* C26: LogHistory and JobProgress change only when a poll response is
\* processed while the run is in Sending (the reset at the start of a run
\* and Clear Logs set aside in the claim's favour).
C26_OnlyPollerWrites ==
  [][(logs' # logs \/ progress' # progress)
     => \/ runState = "Sending" /\ \E i \in 1..Len(polls) : PollReceive(i)
        \/ handleStartSending
        \/ clearLogs]_vars

\* C27: a processed poll response leaves JobProgress equal to the current
\* and total of that response.
C27_ProgressOverwritten ==
  [][\A i \in 1..Len(polls) :
       PollReceive(i)
       => progress' = [current |-> polls[i].data.current, total |-> polls[i].data.total]]_vars

\* C27 witness: a response with log lines was processed, its merge appended
\* nothing, and JobProgress holds its counts
C27_Witness ==
  /\ lastData # NoData
  /\ Len(lastData.data.logs) > 0
  /\ PollerEntries(logs) = <<>>
  /\ progress = [current |-> lastData.data.current, total |-> lastData.data.total]
  /\ progress.current > 0

LogTexts ==
  {"a", "b", "c", "d U+2713", "error: e", "x U+2717", "Sent: SUCCESS", "y Failed",
   "Success, 0 failed", "U+2717 U+2713", "ERROR 5", "failure", "succes", ""}

MaxLines == 2

LogSeqs == UNION {[1..n -> LogTexts] : n \in 0..MaxLines}

\* The page in Sending after an acknowledged launch, its history holding the
\* launcher's two entries, and the response of a poll in flight: the job
\* had written "a", "b" and then the lines of newLines
SendingWithResponse(newLines) ==
  LET jobLogs == <<"a", "b">> \o newLines IN
  /\ recipientsFile = <<"list", "xlsx">>
  /\ attachmentFile = NoFile
  /\ isSending = TRUE
  /\ progress = [current |-> 0, total |-> 0]
  /\ logs = <<[type |-> "info", message |-> InitMessage(recipientsFile)],
              [type |-> "info", message |-> "Bulk sending process started successfully"]>>
  /\ toast = NoToast
  /\ interval = PollingEffect(TRUE, logs)
  /\ polls = <<[len |-> Len(logs), run |-> 1, stage |-> "response",
                data |-> [current |-> Len(jobLogs), total |-> Len(jobLogs) + 1,
                          logs |-> jobLogs, is_active |-> TRUE]]>>
  /\ launches = <<>>
  /\ server = [job |-> 1, current |-> Len(jobLogs), total |-> Len(jobLogs) + 1,
               logs |-> jobLogs, is_active |-> TRUE]
  /\ run = 1
  /\ outcome = "none"
  /\ summaryRequests = 0
  /\ finalToasts = 0
  /\ lastData = NoData
  /\ requests = 2
  /\ duration = DefaultDuration
  /\ isVisible = FALSE
  /\ isExiting = FALSE
  /\ autoTimer = NoTimer
  /\ closeTimers = <<>>
  /\ shown = NotShown
  /\ alert = NoAlert

ClassifyStep == \E i \in 1..Len(polls) : PollReceive(i)

SpecClassify == (\E newLines \in LogSeqs : SendingWithResponse(newLines)) /\ [][ClassifyStep]_vars

\* The kind the rule of C29 gives each line of LogTexts
C29_Kind(text) ==
  CASE text \in {"d U+2713", "Sent: SUCCESS", "Success, 0 failed", "U+2717 U+2713"} -> "success"
    [] text \in {"error: e", "x U+2717", "y Failed", "ERROR 5"} -> "error"
    [] text \in {"a", "b", "c", "failure", "succes", ""} -> "info"

\* C29: every line merged from a response enters LogHistory with the kind
\* the rule gives its text (success markers first, then failure markers,
\* else info), whatever the line; the entries already held stay as they are.
C29_Classification ==
  [][\A i \in 1..Len(polls) :
       PollReceive(i)
       => LET newLines == Slice(polls[i].data.logs, polls[i].len) IN
          /\ Len(logs') = Len(logs) + Len(newLines)
          /\ \A k \in 1..Len(logs) : logs'[k] = logs[k]
          /\ \A k \in 1..Len(newLines) :
               logs'[Len(logs) + k] = [type |-> C29_Kind(newLines[k]), message |-> newLines[k]]]_vars

\* C29 witness: a line with a success and a failure marker and a line with
\* a marker in capitals were merged
C29_Witness ==
  /\ polls = <<>>
  /\ Len(logs) = 4
  /\ logs[3] = [type |-> "success", message |-> "Success, 0 failed"]
  /\ logs[4] = [type |-> "error", message |-> "ERROR 5"]

\* C30: Export Logs changes neither LogHistory, JobProgress, the run state,
\* the file selections nor the toast, and sends no request.
C30_ExportIsPure ==
  [][ExportLogs
     => /\ UNCHANGED <<logs, progress, isSending, recipientsFile, attachmentFile, toast>>
        /\ UNCHANGED <<polls, launches, requests>>
        /\ runState' = runState]_vars

\* C31: the selected files change only by a file chosen or dropped on a
\* slot, by the remove button of a slot or by Clear Files; the launch, its
\* answer, the polls, the completion and the summary leave them alone.
C31_FilesOnlyByUser ==
  [][(recipientsFile' # recipientsFile \/ attachmentFile' # attachmentFile)
     => \/ \E slot \in Slots : \E file \in Candidates(slot) :
             handleFileInput(slot, file) \/ handleDrop(slot, file)
        \/ \E slot \in Slots : handleRemoveFile(slot)
        \/ clearFiles]_vars

\* C31 witness: a run completed and summarised, both files still selected
C31_Witness ==
  /\ runState = "Completed"
  /\ finalToasts > 0
  /\ recipientsFile = <<"list", "xlsx">>
  /\ attachmentFile = <<"flyer", "pdf">>

\* C32: at most one start-job request is unanswered, and a run that is
\* over has no start-job request of its own unanswered.
C32_OneLaunch ==
  /\ Len(launches) <= 1
  /\ (~isSending => ~LaunchPending)

\* C33: a run starts with JobProgress {0, 0} and a LogHistory of its own
\* first entry only, and while a run is in progress the response to a poll
\* or summary request of an earlier run changes neither LogHistory,
\* JobProgress, the toast nor the run.
C33_RunIsolation ==
  [][/\ handleStartSending
        => /\ progress' = [current |-> 0, total |-> 0]
           /\ logs' = <<[type |-> "info", message |-> InitMessage(recipientsFile)]>>
     /\ \A i \in 1..Len(polls) :
          (/\ isSending
           /\ polls[i].run < run
           /\ \/ PollReceive(i)
              \/ \E s \in StatusCounts : \E f \in StatusCounts : StatusReceive(i, s, f)
              \/ StatusNotOk(i))
          => UNCHANGED <<logs, progress, toast, isSending>>]_vars

====
